---- MODULE Spec2Model ----
(***************************************************************************)
(* The PDF conversion pipeline of dnbmarc-batch-dl                         *)
(* (src/python/converter/convert.py, src/python/converter/get_records.py)  *)
(* and the file handling of the downloader                                 *)
(* (src/python/downloader/downloader.py), as a state machine.              *)
(*                                                                         *)
(* One converter process runs main(): it starts the batch cursor           *)
(* get_pdf_links, and for every batch runs download_batch (one             *)
(* download_with_retry per item) and process_batch (convert, upload,       *)
(* record, clean up).  The work store (table dnb_records), the blacklist   *)
(* file failed_pdfs.json and the files under temp_files survive the end of *)
(* a process; a later run starts from them.                                *)
(***************************************************************************)
EXTENDS Integers, Sequences, FiniteSets, TLC

(* ------------------------------ bounds --------------------------------- *)
\* number of records in the work store; their idn are 1..NumItems
NumItems == 3
\* the batch_size handed to get_pdf_links
BatchSize == 2
\* number of runs of the converter process (the first run and its restarts)
MaxRuns == 2
\* the clock of a process is followed up to this many seconds after its start
MaxTime == 910
\* the downloader's page size (main calls process_records with batch_size=64)
DlBatchSize == 2
\* the downloader's pool size (main calls it with max_concurrent_downloads=4)
MaxConcurrent == 2
\* the abstract finder's batch size (main sets batch_size = 500)
AfBatchSize == 2
\* the number of records the migration reads from SQLite
MgNumRecords == 6

(* ------------------------- program constants --------------------------- *)
\* download_with_retry(..., max_retries: int = 3)
MaxRetries == 3
\* the converters a process has: main builds one PdfConverter and passes it on
ConversionSlots == 1
\* validate_pdf: len(reader.pages) > 200
PageLimit == 200
\* main: time.time() - last_successful_conversion > 900
StallWindow == 900
\* retry_on_db_error(max_retries=10, ...)
DbMaxRetries == 10
\* get_pdf_links: time.sleep(5) after a database error
RetrySleep == 5

Ids == 1..NumItems
\* batch directories batch_<batch_count>; a run makes at most NumItems batches
Dirs == 0..(NumItems - 1)

NULL == "NULL"
\* SQL NULL of url_dnb_archive is modelled by FALSE in url

\* requests.RequestException kinds seen by download_with_retry
NetErrors == {"timeout", "connection reset"}

\* what a completed download can hold: signature present or not, page count
Contents ==
  { [sig |-> FALSE, pages |-> 0],
    [sig |-> TRUE,  pages |-> 0],
    [sig |-> TRUE,  pages |-> 3],
    [sig |-> TRUE,  pages |-> PageLimit + 1] }

\* what a batch can take, from the last reading of the clock to the stall check: no
\* time to speak of, the stall window to the second, or more than the stall window
BatchSeconds == {0, StallWindow, StallWindow + 1}

\* the values of the column year of the records
LastYear == 2020
Years == {LastYear - 1, LastYear}

NoFile == [sig |-> FALSE, pages |-> -1]
\* a temporary file that was opened for writing and not yet written completely
Partial == [sig |-> FALSE, pages |-> -2]

(* ------------------------------ state ---------------------------------- *)
VARIABLES
  \* work store (DNBRecord)
  url,              \* idn -> url_dnb_archive is not NULL
  converted_file,   \* idn -> converted_file
  drive_file_id,    \* idn -> drive_file_id
  \* failed_pdfs.json: a function from a set of idn to the reason
  blacklistFile,
  \* files below temp_files/batch_processing: [dir][idn]
  tmpF,             \* <idn>.pdf.tmp
  pdfF,             \* <idn>.pdf
  mmdF,             \* <idn>.mmd in the batch directory
  uplF,             \* uploaded/<idn>.mmd in the batch directory
  \* the converter process
  pc,               \* position of main()
  run,              \* number of the current run
  exitCode,         \* status of the process once it has ended
  gen_blacklist,    \* get_pdf_links: blacklist loaded at its start
  offset,           \* get_pdf_links: offset
  batch,            \* main: batch
  batch_count,      \* main: batch_count
  dl_blacklist,     \* download_batch: blacklist loaded at start of batch
  downloaded,       \* download_batch: downloaded
  idx,              \* position in batch (download_batch) or downloaded_batch (process_batch)
  attempt,          \* download_with_retry: attempt
  last_error,       \* download_with_retry: last_error
  dlResult,         \* download_with_retry: returned value
  processed_count,  \* main: number of True in results
  \* history
  errs,             \* outcome of every request of the current download_with_retry call
  yielded,          \* ids yielded by get_pdf_links in this run
  everInvalid,      \* ids one of whose downloads failed validate_pdf
  third,            \* ids whose download of this run succeeded at the third attempt
  lastOutcome,      \* how process_batch ended with the item it handled last
  \* the downloader's download_and_save_file for one record
  d_pc, d_tmp, d_final,
  \* main: the clock and the stall timer
  now,              \* the time, in seconds since the process started
  last_successful_conversion,
  \* retry_on_db_error around get_total_records: attempt
  db_attempt,
  \* the database as the query of get_pdf_links finds it: reachable or not
  db_up,
  \* calls of mark_record_as_processed on a work store
  m_args,           \* the arguments of the last call
  m_once,           \* <<converted_file, drive_file_id>> after the first of the last equal calls
  m_repeat,         \* the last call had the arguments of the call before it
  \* what the converter has done so far
  conv_failures,    \* per id, the conversions of it that raised, over all runs
  hb_writes,        \* the writes of converter_heartbeat.txt by this process
  received,         \* per id, the content the server sent for it in this run
  \* another converter process on the same blacklist file, in add_to_blacklist
  o_pc, o_copy, o_id,
  \* the downloader's process_records and its get_records generator
  year,             \* per record, the column the pages are ordered by
  path,             \* per record, whether its path is set
  pr_pc,            \* where process_records is
  gr_state,         \* where the generator get_records is
  gr_offset,        \* the generator's offset
  gr_page,          \* the records of the generator's page not yet yielded
  submitted,        \* the record ids submitted to the executor, in order
  active_futures,   \* the number of futures not yet collected
  collected,        \* how the tasks collected so far have ended, in order
  \* one invocation of a function wrapped by retry_on_db_error(max_retries)
  r_max,            \* max_retries
  r_attempt,        \* the loop variable attempt
  r_calls,          \* the calls of the wrapped function so far
  r_state,          \* "calling", or how the invocation has ended
  \* the abstract finder's main loop
  af_pc,            \* where main is
  af_batch,         \* the batch of the last query
  abstract_num,     \* per record, the column abstract_num (AbstractUnset: NULL)
  \* the migration from SQLite to PostgreSQL
  mg_pc,            \* where the script is
  mg_idx,           \* the index of the record the for loop is at
  mg_pending,       \* the records flushed in the open transaction
  mg_table,         \* the records committed to the target table
  successful_inserts,
  failed_inserts

storeVars == <<url, converted_file, drive_file_id>>
fileVars == <<tmpF, pdfF, mmdF, uplF>>
timeVars == <<now, last_successful_conversion>>
procVars == <<pc, run, exitCode, gen_blacklist, offset, batch, batch_count, dl_blacklist,
              downloaded, idx, attempt, last_error, dlResult, processed_count, timeVars,
              db_attempt>>
histVars == <<errs, yielded, everInvalid, third, lastOutcome>>
markVars == <<m_args, m_once, m_repeat>>
convVars == <<storeVars, blacklistFile, fileVars, procVars, histVars, db_up, markVars>>
dlVars == <<d_pc, d_tmp, d_final>>
countVars == <<conv_failures, hb_writes, received>>
otherVars == <<o_pc, o_copy, o_id>>
submitVars == <<year, path, pr_pc, gr_state, gr_offset, gr_page, submitted, active_futures,
                collected>>
retryVars == <<r_max, r_attempt, r_calls, r_state>>
abstractVars == <<af_pc, af_batch, abstract_num>>
migrateVars == <<mg_pc, mg_idx, mg_pending, mg_table, successful_inserts, failed_inserts>>
toolVars == <<retryVars, abstractVars, migrateVars>>
vars == <<convVars, dlVars, countVars, otherVars, submitVars, toolVars>>

(* ---------------------------- pure helpers ----------------------------- *)
\* update_heartbeat leaves the file as it is
update_heartbeat_skipped(n) == n

\* update_heartbeat of main: converter_heartbeat.txt is opened for writing and the
\* time is written to it; n is the number of writes so far
update_heartbeat(n) == n + 1

Range(s) == {s[k] : k \in DOMAIN s}

Min(S) == CHOOSE x \in S : \A y \in S : x <= y

RECURSIVE SortedSeq(_)
\* ORDER BY idn
SortedSeq(S) == IF S = {} THEN <<>> ELSE <<Min(S)>> \o SortedSeq(S \ {Min(S)})

\* OFFSET off LIMIT lim
Page(s, off, lim) ==
  IF off >= Len(s) THEN <<>>
  ELSE SubSeq(s, off + 1, IF off + lim <= Len(s) THEN off + lim ELSE Len(s))

\* variant: the header is not looked at
validate_pdf_no_signature_check(c) ==
  IF c.pages = 0 THEN <<FALSE, "PDF has no pages">>
  ELSE IF c.pages > PageLimit THEN <<FALSE, "PDF exceeds 200 page limit">>
  ELSE <<TRUE, NULL>>

\* validate_pdf: <<is_valid, reason>>
validate_pdf(c) ==
  IF ~c.sig THEN <<FALSE, "Invalid PDF signature">>
  ELSE IF c.pages = 0 THEN <<FALSE, "PDF has no pages">>
  ELSE IF c.pages > PageLimit THEN <<FALSE, "PDF exceeds 200 page limit">>
  ELSE <<TRUE, NULL>>

\* variant: the file cannot be read, the error is logged and {} is returned
load_blacklist_unreadable == <<>>

\* convert.load_blacklist: the mapping id -> reason
load_blacklist == blacklistFile

\* variant: get_pdf_links without the blacklist (the file is not read)
load_blacklist_ids_none == {}

\* get_records.load_blacklist: set(json.load(f)), the keys
load_blacklist_ids == DOMAIN blacklistFile

\* variant: the entry is not written (the write fails and is only logged)
add_to_blacklist_lost(bl, pdf_id, reason) == bl

\* variant: the entry is written without the reason it was given
add_to_blacklist_unknown(bl, pdf_id, reason) ==
  [i \in (DOMAIN bl) \cup {pdf_id} |-> IF i = pdf_id THEN "Unknown error" ELSE bl[i]]

\* add_to_blacklist: the file with blacklist[pdf_id] = reason
add_to_blacklist(bl, pdf_id, reason) ==
  [i \in (DOMAIN bl) \cup {pdf_id} |-> IF i = pdf_id THEN reason ELSE bl[i]]

\* variant: the query without the filter converted_file IS NULL
SelectableMarkedToo(bl) == {i \in Ids : url[i] /\ i \notin bl}

\* the filter of the query of get_pdf_links
Selectable(bl) == {i \in Ids : url[i] /\ converted_file[i] = NULL /\ i \notin bl}

\* the query of get_pdf_links
Query(bl, off, lim) == Page(SortedSeq(Selectable(bl)), off, lim)

EmptyDir == [i \in Ids |-> NoFile]
NoFlags == [i \in Ids |-> FALSE]

(* ------------------------------- Init ---------------------------------- *)
\* the column abstract_num is NULL (the counts the finder stores are 0 or more)
AbstractUnset == -1

\* everything but the source URLs: nothing is processed, blacklisted or on disk
InitRest ==
  /\ converted_file = [i \in Ids |-> NULL]
  /\ drive_file_id = [i \in Ids |-> NULL]
  /\ blacklistFile = <<>>
  /\ tmpF = [d \in Dirs |-> EmptyDir]
  /\ pdfF = [d \in Dirs |-> EmptyDir]
  /\ mmdF = [d \in Dirs |-> NoFlags]
  /\ uplF = [d \in Dirs |-> NoFlags]
  /\ pc = "start"
  /\ run = 1
  /\ exitCode = -1
  /\ gen_blacklist = {}
  /\ offset = 0
  /\ batch = <<>>
  /\ batch_count = 0
  /\ dl_blacklist = <<>>
  /\ downloaded = <<>>
  /\ idx = 0
  /\ attempt = 0
  /\ last_error = NULL
  /\ dlResult = FALSE
  /\ processed_count = 0
  /\ errs = <<>>
  /\ yielded = {}
  /\ everInvalid = {}
  /\ third = {}
  /\ lastOutcome = "none"
  /\ d_pc = "idle"
  /\ d_tmp = NoFile
  /\ d_final = NoFile
  /\ now = 0
  /\ last_successful_conversion = 0
  /\ db_attempt = 0
  /\ db_up = TRUE
  /\ m_args = <<>>
  /\ m_once = <<>>
  /\ m_repeat = FALSE
  /\ conv_failures = [i \in Ids |-> 0]
  /\ hb_writes = 0
  /\ received = EmptyDir
  /\ o_pc = "idle"
  /\ o_copy = <<>>
  /\ o_id = 0
  /\ pr_pc = "fill"
  /\ gr_state = "query"
  /\ gr_offset = 0
  /\ gr_page = <<>>
  /\ submitted = <<>>
  /\ active_futures = 0
  /\ collected = <<>>
  /\ r_attempt = 0
  /\ r_calls = 0
  /\ r_state = "calling"
  /\ af_pc = "query"
  /\ af_batch = {}
  /\ abstract_num = [i \in Ids |-> AbstractUnset]
  /\ mg_pc = "insert"
  /\ mg_idx = 1
  /\ mg_pending = {}
  /\ mg_table = {}
  /\ successful_inserts = 0
  /\ failed_inserts = 0

\* every record has a source URL, or all but record 2
Init ==
  /\ url \in {u \in [Ids -> BOOLEAN] : \A i \in Ids : ~u[i] => i = 2}
  /\ year = [i \in Ids |-> LastYear]
  /\ path = [i \in Ids |-> FALSE]
  /\ r_max = DbMaxRetries
  /\ InitRest

\* a work store in which record 1 alone has a source URL
InitFetch ==
  /\ url = [i \in Ids |-> i = 1]
  /\ year = [i \in Ids |-> LastYear]
  /\ path = [i \in Ids |-> FALSE]
  /\ r_max = DbMaxRetries
  /\ InitRest

\* a work store in which records 1 and 2 have a source URL
InitShared ==
  /\ url = [i \in Ids |-> i <= 2]
  /\ year = [i \in Ids |-> LastYear]
  /\ path = [i \in Ids |-> FALSE]
  /\ r_max = DbMaxRetries
  /\ InitRest

\* the downloader's work store: every record has a source URL, the years and the
\* records that have a file already are any
InitSubmit ==
  /\ url = [i \in Ids |-> TRUE]
  /\ year \in [Ids -> Years]
  /\ path \in [Ids -> BOOLEAN]
  /\ r_max = DbMaxRetries
  /\ InitRest

(* --------------------------- get_pdf_links ----------------------------- *)
\* get_total_records raises OperationalError or SQLAlchemyError: retry_on_db_error
\* sleeps and calls it again, or re-raises at the last of its max_retries attempts;
\* "except Exception" of get_pdf_links logs that error, the generator ends without a
\* batch, the for loop of main ends and main returns
GenCountFails ==
  /\ pc = "start"
  /\ IF db_attempt < DbMaxRetries - 1
     THEN /\ db_attempt' = db_attempt + 1
          /\ UNCHANGED <<pc, exitCode>>
     ELSE /\ pc' = "exited"
          /\ exitCode' = 0
          /\ UNCHANGED db_attempt
  /\ UNCHANGED <<storeVars, blacklistFile, fileVars, histVars, dlVars>>
  /\ UNCHANGED <<run, gen_blacklist, offset, batch, batch_count, dl_blacklist, downloaded,
                 idx, attempt, last_error, dlResult, processed_count>>
  /\ UNCHANGED <<timeVars, db_up, markVars>>
  /\ UNCHANGED <<countVars, otherVars, submitVars, toolVars>>

\* get_pdf_links up to the while loop: get_total_records returns, the blacklist is
\* loaded once
GenStart ==
  /\ pc = "start"
  /\ gen_blacklist' = load_blacklist_ids
  /\ offset' = 0
  /\ pc' = "gen_read"
  /\ UNCHANGED <<storeVars, blacklistFile, fileVars, histVars, dlVars>>
  /\ UNCHANGED <<run, exitCode, batch, batch_count, dl_blacklist, downloaded, idx, attempt,
                 last_error, dlResult, processed_count>>
  /\ db_attempt' = 0
  /\ UNCHANGED <<timeVars, db_up, markVars>>
  /\ UNCHANGED <<countVars, otherVars, submitVars, toolVars>>

\* one pass of the while loop: the query succeeds, then break or yield
GenRead ==
  /\ pc = "gen_read"
  /\ db_up
  /\ LET results == Query(gen_blacklist, offset, BatchSize) IN
       IF results = <<>>
       THEN \* the generator ends, the for loop of main ends, main returns
            /\ pc' = "exited"
            /\ exitCode' = 0
            /\ UNCHANGED <<batch, yielded>>
       ELSE /\ batch' = results
            /\ yielded' = yielded \cup Range(results)
            /\ pc' = "batch_start"
            /\ UNCHANGED exitCode
  /\ UNCHANGED <<storeVars, blacklistFile, fileVars, dlVars>>
  /\ UNCHANGED <<run, gen_blacklist, offset, batch_count, dl_blacklist, downloaded, idx,
                 attempt, last_error, dlResult, processed_count>>
  /\ UNCHANGED <<errs, everInvalid, third, lastOutcome>>
  /\ UNCHANGED <<timeVars, db_attempt, db_up, markVars>>
  /\ UNCHANGED <<countVars, otherVars, submitVars, toolVars>>

\* variant: the offset stays where it is
NextOffsetSame(off) == off

\* get_pdf_links after the yield: offset += batch_size
NextOffset(off) == off + BatchSize

\* the generator is resumed after the yield: offset += batch_size
GenResume ==
  /\ pc = "gen_resume"
  /\ offset' = NextOffset(offset)
  /\ pc' = "gen_read"
  /\ UNCHANGED <<storeVars, blacklistFile, fileVars, histVars, dlVars>>
  /\ UNCHANGED <<run, exitCode, gen_blacklist, batch, batch_count, dl_blacklist, downloaded,
                 idx, attempt, last_error, dlResult, processed_count>>
  /\ UNCHANGED <<timeVars, db_attempt, db_up, markVars>>
  /\ UNCHANGED <<countVars, otherVars, submitVars, toolVars>>

\* the query raises OperationalError or SQLAlchemyError: the error is logged and the
\* generator sleeps
GenDbError ==
  /\ pc = "gen_read"
  /\ ~db_up
  /\ pc' = "gen_sleep"
  /\ UNCHANGED <<storeVars, blacklistFile, fileVars, histVars, dlVars>>
  /\ UNCHANGED <<run, exitCode, gen_blacklist, offset, batch, batch_count, dl_blacklist,
                 downloaded, idx, attempt, last_error, dlResult, processed_count>>
  /\ UNCHANGED <<timeVars, db_attempt, db_up, markVars>>
  /\ UNCHANGED <<countVars, otherVars, submitVars, toolVars>>

\* variant: the page that could not be read is passed over
OffsetAfterDbErrorNextPage(off) == off + BatchSize

\* the except branch of the while loop of get_pdf_links: sleep, continue; the offset is
\* not touched
OffsetAfterDbError(off) == off

\* time.sleep(5) is over; continue: the query is made again with the same offset (the
\* clock is not followed beyond MaxTime)
GenRetry ==
  /\ pc = "gen_sleep"
  /\ now' = IF now + RetrySleep <= MaxTime THEN now + RetrySleep ELSE now
  /\ pc' = "gen_read"
  /\ offset' = OffsetAfterDbError(offset)
  /\ UNCHANGED <<storeVars, blacklistFile, fileVars, histVars, dlVars>>
  /\ UNCHANGED <<run, exitCode, gen_blacklist, batch, batch_count, dl_blacklist,
                 downloaded, idx, attempt, last_error, dlResult, processed_count>>
  /\ UNCHANGED <<last_successful_conversion, db_attempt, db_up, markVars>>
  /\ UNCHANGED <<countVars, otherVars, submitVars, toolVars>>

\* the database becomes unreachable for the query of get_pdf_links
DbDown ==
  /\ pc = "gen_read"
  /\ db_up
  /\ db_up' = FALSE
  /\ UNCHANGED <<storeVars, blacklistFile, fileVars, procVars, histVars, markVars, dlVars>>
  /\ UNCHANGED <<countVars, otherVars, submitVars, toolVars>>

\* the database is reachable again
DbUp ==
  /\ pc = "gen_read"
  /\ ~db_up
  /\ db_up' = TRUE
  /\ UNCHANGED <<storeVars, blacklistFile, fileVars, procVars, histVars, markVars, dlVars>>
  /\ UNCHANGED <<countVars, otherVars, submitVars, toolVars>>

(* ----------------------------- work store ------------------------------ *)
\* variant: a record that is marked already is put back in the queue
mark_record_as_processed_requeue(pdf_id, drive_id, drive_filename) ==
  /\ converted_file' =
       IF pdf_id \in Ids
       THEN [converted_file EXCEPT
               ![pdf_id] = IF converted_file[pdf_id] = NULL THEN drive_filename ELSE NULL]
       ELSE converted_file
  /\ drive_file_id' =
       IF pdf_id \in Ids
       THEN [drive_file_id EXCEPT
               ![pdf_id] = IF converted_file[pdf_id] = NULL THEN drive_id ELSE NULL]
       ELSE drive_file_id
  /\ url' = url

\* variant: every call stores an external id
mark_record_as_processed_with_id(pdf_id, drive_id, drive_filename) ==
  /\ converted_file' =
       IF pdf_id \in Ids THEN [converted_file EXCEPT ![pdf_id] = drive_filename]
       ELSE converted_file
  /\ drive_file_id' =
       IF pdf_id \in Ids THEN [drive_file_id EXCEPT ![pdf_id] = "drive id"]
       ELSE drive_file_id
  /\ url' = url

\* variant: the update without the filter on idn, every record is set
mark_record_as_processed_all(pdf_id, drive_id, drive_filename) ==
  /\ converted_file' = [i \in Ids |-> drive_filename]
  /\ drive_file_id' = [i \in Ids |-> drive_id]
  /\ url' = url

\* mark_record_as_processed: "if record:" the record's converted_file and drive_file_id
\* are set and committed; without a record there is a warning and nothing else
mark_record_as_processed(pdf_id, drive_id, drive_filename) ==
  /\ converted_file' =
       IF pdf_id \in Ids THEN [converted_file EXCEPT ![pdf_id] = drive_filename]
       ELSE converted_file
  /\ drive_file_id' =
       IF pdf_id \in Ids THEN [drive_file_id EXCEPT ![pdf_id] = drive_id]
       ELSE drive_file_id
  /\ url' = url

\* the ids mark_record_as_processed is called with: those of the records, and one that
\* has no record
MarkIds == Ids \cup {NumItems + 1}

\* the outcomes it is called with: <<drive_file_id, drive_filename>>
MarkOutcomes ==
  { <<"drive id", "mmd name">>, <<"drive id 2", "mmd name 2">>,
    <<NULL, "Failed: Unknown error">> }

\* one call of mark_record_as_processed, on the work store as it is
MarkCall ==
  /\ \E i \in MarkIds : \E o \in MarkOutcomes :
       /\ mark_record_as_processed(i, o[1], o[2])
       /\ m_repeat' = (m_args = <<i, o[1], o[2]>>)
       /\ m_args' = <<i, o[1], o[2]>>
       /\ m_once' = IF m_args = <<i, o[1], o[2]>> THEN m_once
                    ELSE <<converted_file', drive_file_id'>>
  /\ UNCHANGED <<blacklistFile, fileVars, procVars, histVars, db_up, dlVars>>
  /\ UNCHANGED <<countVars, otherVars, submitVars, toolVars>>

(* ------------------------- download_with_retry ------------------------- *)
\* the batch directory of the current batch
CurDir == batch_count

\* variant: range(max_retries + 1)
MoreAttemptsOneMore(a) == a <= MaxRetries

\* variant: range(max_retries - 1)
MoreAttemptsOneLess(a) == a < MaxRetries - 1

\* for attempt in range(max_retries): is there an attempt number a
MoreAttempts(a) == a < MaxRetries

\* variant: the response is written to local_path itself
OpenFinalForWrite(d, i) == << tmpF, [pdfF EXCEPT ![d][i] = Partial] >>

\* open(temp_path, 'wb') with temp_path = local_path + ".tmp": <<tmpF, pdfF>> afterwards
OpenForWrite(d, i) == << [tmpF EXCEPT ![d][i] = Partial], pdfF >>

\* variant: the except branches remove nothing
RemoveTmpAndFinalNothing(d, i) == UNCHANGED <<tmpF, pdfF>>

\* the cleanup of both except branches: remove local_path.tmp and local_path
RemoveTmpAndFinal(d, i) ==
  /\ tmpF' = [tmpF EXCEPT ![d][i] = NoFile]
  /\ pdfF' = [pdfF EXCEPT ![d][i] = NoFile]

\* variant: the same wait after every failed attempt
SleepAfterConstant(a) == IF a < MaxRetries - 1 THEN 1 ELSE 0

\* "if attempt < max_retries - 1: time.sleep(2 ** attempt)": the seconds slept after
\* the failed attempt a (counted from 0), 0 for no sleep
SleepAfter(a) == IF a < MaxRetries - 1 THEN 2 ^ a ELSE 0

\* except requests.RequestException: clean up, then next attempt or give up
RequestFailed(i, e) ==
  LET err == "Download failed: " \o e IN
  /\ last_error' = err
  /\ errs' = Append(errs, [kind |-> "net", what |-> e, wait |-> SleepAfter(attempt)])
  /\ RemoveTmpAndFinal(CurDir, i)
  /\ attempt' = attempt + 1
  /\ IF MoreAttempts(attempt + 1)
     THEN /\ pc' = "dw_attempt"
          /\ UNCHANGED <<blacklistFile, dlResult>>
     ELSE \* the loop is exhausted: add_to_blacklist(pdf_id, last_error), return False
          /\ blacklistFile' = add_to_blacklist(load_blacklist, i, err)
          /\ dlResult' = FALSE
          /\ pc' = "dw_returned"

\* no id is found in the blacklist
InBlacklistNever(pdf_id, bl) == FALSE

\* download_batch: "if pdf_id in blacklist"
InBlacklist(pdf_id, bl) == pdf_id \in DOMAIN bl

\* download_batch takes the next item of the batch, or returns
DownloadBatchNext ==
  /\ pc = "dl_item"
  /\ IF idx > Len(batch)
     THEN /\ pc' = "after_download"
          /\ UNCHANGED <<storeVars, idx, attempt, last_error, errs, exitCode>>
     ELSE LET i == batch[idx] IN
          IF InBlacklist(i, dl_blacklist)
          THEN \* skip a blacklisted item and mark it processed
               \E db \in {"ok", "error_then_ok", "down"} :
                 /\ IF db = "ok"
                    THEN /\ mark_record_as_processed(i, NULL, "Blacklisted: " \o dl_blacklist[i])
                         /\ pc' = "dl_item" /\ idx' = idx + 1 /\ UNCHANGED exitCode
                    ELSE IF db = "error_then_ok"
                    THEN /\ mark_record_as_processed(i, NULL, "Error: database")
                         /\ pc' = "dl_item" /\ idx' = idx + 1 /\ UNCHANGED exitCode
                    ELSE /\ pc' = "exited" /\ exitCode' = 1
                         /\ UNCHANGED <<storeVars, idx>>
                 /\ UNCHANGED <<attempt, last_error, errs>>
          ELSE \* download_with_retry is called
               /\ attempt' = 0
               /\ last_error' = NULL
               /\ errs' = <<>>
               /\ pc' = "dw_attempt"
               /\ UNCHANGED <<storeVars, idx, exitCode>>
  /\ UNCHANGED <<blacklistFile, fileVars, dlVars>>
  /\ UNCHANGED <<run, gen_blacklist, offset, batch, batch_count, dl_blacklist, downloaded,
                 dlResult, processed_count>>
  /\ UNCHANGED <<yielded, everInvalid, third, lastOutcome>>
  /\ UNCHANGED <<timeVars, db_attempt, db_up, markVars>>
  /\ UNCHANGED <<countVars, otherVars, submitVars, toolVars>>

\* requests.get and raise_for_status raise: the attempt fails
DwRequestFails ==
  /\ pc = "dw_attempt"
  /\ \E e \in NetErrors : RequestFailed(batch[idx], e)
  /\ UNCHANGED <<storeVars, mmdF, uplF, dlVars>>
  /\ UNCHANGED <<run, exitCode, gen_blacklist, offset, batch, batch_count, dl_blacklist,
                 downloaded, idx, processed_count>>
  /\ UNCHANGED <<yielded, everInvalid, third, lastOutcome>>
  /\ UNCHANGED <<timeVars, db_attempt, db_up, markVars>>
  /\ UNCHANGED <<countVars, otherVars, submitVars, toolVars>>

\* the response arrives and the temporary file is opened for writing
DwOpen ==
  /\ pc = "dw_attempt"
  /\ tmpF' = OpenForWrite(CurDir, batch[idx])[1]
  /\ pdfF' = OpenForWrite(CurDir, batch[idx])[2]
  /\ pc' = "dw_write"
  /\ UNCHANGED <<storeVars, blacklistFile, mmdF, uplF, histVars, dlVars>>
  /\ UNCHANGED <<run, exitCode, gen_blacklist, offset, batch, batch_count, dl_blacklist,
                 downloaded, idx, attempt, last_error, dlResult, processed_count>>
  /\ UNCHANGED <<timeVars, db_attempt, db_up, markVars>>
  /\ UNCHANGED <<countVars, otherVars, submitVars, toolVars>>

\* the connection breaks while the chunks are written
DwStreamFails ==
  /\ pc = "dw_write"
  /\ \E e \in NetErrors : RequestFailed(batch[idx], e)
  /\ UNCHANGED <<storeVars, mmdF, uplF, dlVars>>
  /\ UNCHANGED <<run, exitCode, gen_blacklist, offset, batch, batch_count, dl_blacklist,
                 downloaded, idx, processed_count>>
  /\ UNCHANGED <<yielded, everInvalid, third, lastOutcome>>
  /\ UNCHANGED <<timeVars, db_attempt, db_up, markVars>>
  /\ UNCHANGED <<countVars, otherVars, submitVars, toolVars>>

\* writing raises an error that is no RequestException: clean up, break, blacklist
DwUnexpected ==
  /\ pc = "dw_write"
  /\ LET err == "Unexpected error: write failed" IN
       /\ last_error' = err
       /\ errs' = Append(errs, [kind |-> "unexpected", what |-> "write failed", wait |-> 0])
       /\ RemoveTmpAndFinal(CurDir, batch[idx])
       /\ blacklistFile' = add_to_blacklist(load_blacklist, batch[idx], err)
       /\ dlResult' = FALSE
       /\ pc' = "dw_returned"
  /\ UNCHANGED <<storeVars, mmdF, uplF, dlVars>>
  /\ UNCHANGED <<run, exitCode, gen_blacklist, offset, batch, batch_count, dl_blacklist,
                 downloaded, idx, attempt, processed_count>>
  /\ UNCHANGED <<yielded, everInvalid, third, lastOutcome>>
  /\ UNCHANGED <<timeVars, db_attempt, db_up, markVars>>
  /\ UNCHANGED <<countVars, otherVars, submitVars, toolVars>>

\* all chunks are written; validate_pdf(temp_path); rename, or remove and blacklist
DwValidate ==
  /\ pc = "dw_write"
  /\ \E c \in Contents :
       LET i == batch[idx]
           v == validate_pdf(c)
       IN IF v[1]
          THEN /\ tmpF' = [tmpF EXCEPT ![CurDir][i] = NoFile]
               /\ pdfF' = [pdfF EXCEPT ![CurDir][i] = c]
               /\ errs' = Append(errs, [kind |-> "ok", what |-> "valid", wait |-> 0])
               /\ dlResult' = TRUE
               /\ third' = IF Len(errs) = 2 THEN third \cup {i} ELSE third
               /\ received' = [received EXCEPT ![i] = c]
               /\ UNCHANGED <<blacklistFile, everInvalid>>
          ELSE /\ tmpF' = [tmpF EXCEPT ![CurDir][i] = NoFile]
               /\ pdfF' = pdfF
               /\ blacklistFile' = add_to_blacklist(load_blacklist, i, v[2])
               /\ errs' = Append(errs, [kind |-> "invalid", what |-> v[2], wait |-> 0])
               /\ dlResult' = FALSE
               /\ everInvalid' = everInvalid \cup {i}
               /\ received' = [received EXCEPT ![i] = c]
               /\ UNCHANGED third
  /\ pc' = "dw_returned"
  /\ UNCHANGED <<storeVars, mmdF, uplF, dlVars>>
  /\ UNCHANGED <<run, exitCode, gen_blacklist, offset, batch, batch_count, dl_blacklist,
                 downloaded, idx, attempt, last_error, processed_count>>
  /\ UNCHANGED <<yielded, lastOutcome>>
  /\ UNCHANGED <<timeVars, db_attempt, db_up, markVars>>
  /\ UNCHANGED <<conv_failures, hb_writes, otherVars, submitVars, toolVars>>

\* download_batch with the result of download_with_retry
DownloadBatchResult ==
  /\ pc = "dw_returned"
  /\ LET i == batch[idx] IN
     IF dlResult
     THEN /\ downloaded' = Append(downloaded, i)
          /\ pc' = "dl_item" /\ idx' = idx + 1
          /\ UNCHANGED <<storeVars, exitCode>>
     ELSE LET failure_reason ==
                IF i \in DOMAIN dl_blacklist THEN dl_blacklist[i] ELSE "Unknown error"
          IN \E db \in {"ok", "error_then_ok", "down"} :
               /\ IF db = "ok"
                  THEN /\ mark_record_as_processed(i, NULL, "Failed: " \o failure_reason)
                       /\ pc' = "dl_item" /\ idx' = idx + 1 /\ UNCHANGED exitCode
                  ELSE IF db = "error_then_ok"
                  THEN /\ mark_record_as_processed(i, NULL, "Error: database")
                       /\ pc' = "dl_item" /\ idx' = idx + 1 /\ UNCHANGED exitCode
                  ELSE /\ pc' = "exited" /\ exitCode' = 1
                       /\ UNCHANGED <<storeVars, idx>>
               /\ UNCHANGED downloaded
  \* the locals of download_with_retry are gone
  /\ attempt' = 0
  /\ last_error' = NULL
  /\ dlResult' = FALSE
  /\ errs' = <<>>
  /\ UNCHANGED <<blacklistFile, fileVars, dlVars>>
  /\ UNCHANGED <<run, gen_blacklist, offset, batch, batch_count, dl_blacklist,
                 processed_count>>
  /\ UNCHANGED <<yielded, everInvalid, third, lastOutcome>>
  /\ UNCHANGED <<timeVars, db_attempt, db_up, markVars>>
  /\ UNCHANGED <<countVars, otherVars, submitVars, toolVars>>

(* ----------------------------- process_batch --------------------------- *)
\* variant: the finally block removes pdf_path only
CleanupPdfOnly(p, m, d, i) == << [p EXCEPT ![d][i] = NoFile], m >>

\* the finally block: remove pdf_path and mmd_path if they exist; <<pdfF, mmdF>> afterwards
Cleanup(p, m, d, i) == << [p EXCEPT ![d][i] = NoFile], [m EXCEPT ![d][i] = FALSE] >>

\* variant: an upload failure blacklists the item
OnUploadFailureBlacklists(bl, i) ==
  [j \in (DOMAIN bl) \cup {i} |-> IF j = i THEN "Upload failed" ELSE bl[j]]

\* the else branch of "if success" after the upload: the blacklist afterwards
OnUploadFailure(bl, i) == bl

\* process_batch takes the next downloaded item and checks its file, or returns
ProcessBatchNext ==
  /\ pc = "pb_item"
  /\ IF idx > Len(downloaded)
     THEN /\ pc' = "after_process"
          /\ UNCHANGED <<pdfF, mmdF, idx, lastOutcome>>
     ELSE LET i == downloaded[idx]
              f == pdfF[CurDir][i]
          IN \E metadata_ok \in BOOLEAN :
               IF f # NoFile /\ validate_pdf(f)[1] /\ metadata_ok
               THEN /\ pc' = "pb_convert"
                    /\ UNCHANGED <<pdfF, mmdF, idx, lastOutcome>>
               ELSE \* results.append(False); continue; finally
                    /\ pdfF' = Cleanup(pdfF, mmdF, CurDir, i)[1]
                    /\ mmdF' = Cleanup(pdfF, mmdF, CurDir, i)[2]
                    /\ lastOutcome' = "precheck_failed"
                    /\ idx' = idx + 1
                    /\ pc' = "pb_item"
  /\ UNCHANGED <<storeVars, blacklistFile, tmpF, uplF, dlVars>>
  /\ UNCHANGED <<run, exitCode, gen_blacklist, offset, batch, batch_count, dl_blacklist,
                 downloaded, attempt, last_error, dlResult, processed_count>>
  /\ UNCHANGED <<errs, yielded, everInvalid, third>>
  /\ UNCHANGED <<timeVars, db_attempt, db_up, markVars>>
  /\ UNCHANGED <<countVars, otherVars, submitVars, toolVars>>

\* the conversion is called again for the same item
OnConvertExceptionRetry(k) == <<"pb_convert", k>>

\* "except Exception" of process_batch: results.append(False), and after "finally" the
\* for loop goes on with the next item; <<where process_batch is, the index>>
OnConvertException(k) == <<"pb_item", k + 1>>

\* converter(pdf_path) and the write of the .mmd file
ProcessConvert ==
  /\ pc = "pb_convert"
  /\ LET i == downloaded[idx] IN
     \E converted \in BOOLEAN :
       IF converted
       THEN /\ mmdF' = [mmdF EXCEPT ![CurDir][i] = TRUE]
            /\ pc' = "pb_upload"
            /\ UNCHANGED <<pdfF, idx, lastOutcome, conv_failures>>
       ELSE \* except Exception: results.append(False); finally
            /\ conv_failures' = [conv_failures EXCEPT ![i] = @ + 1]
            /\ pdfF' = Cleanup(pdfF, mmdF, CurDir, i)[1]
            /\ mmdF' = Cleanup(pdfF, mmdF, CurDir, i)[2]
            /\ lastOutcome' = "convert_failed"
            /\ pc' = OnConvertException(idx)[1]
            /\ idx' = OnConvertException(idx)[2]
  /\ UNCHANGED <<storeVars, blacklistFile, tmpF, uplF, dlVars>>
  /\ UNCHANGED <<run, exitCode, gen_blacklist, offset, batch, batch_count, dl_blacklist,
                 downloaded, attempt, last_error, dlResult, processed_count>>
  /\ UNCHANGED <<errs, yielded, everInvalid, third>>
  /\ UNCHANGED <<timeVars, db_attempt, db_up, markVars>>
  /\ UNCHANGED <<hb_writes, received, otherVars, submitVars, toolVars>>

\* upload_file_to_drive succeeds: the .mmd is moved to uploaded/, the record is marked
ProcessUploadOk ==
  /\ pc = "pb_upload"
  /\ LET i == downloaded[idx]
         moved == [mmdF EXCEPT ![CurDir][i] = FALSE]
     IN /\ uplF' = [uplF EXCEPT ![CurDir][i] = TRUE]
        /\ \E db_ok \in BOOLEAN :
             IF db_ok
             THEN /\ mark_record_as_processed(i, "drive id", "mmd name")
                  /\ processed_count' = processed_count + 1
                  /\ lastOutcome' = "success"
             ELSE \* mark_record_as_processed raises: except Exception
                  /\ UNCHANGED <<storeVars, processed_count>>
                  /\ lastOutcome' = "record_failed"
        /\ pdfF' = Cleanup(pdfF, moved, CurDir, i)[1]
        /\ mmdF' = Cleanup(pdfF, moved, CurDir, i)[2]
  /\ idx' = idx + 1
  /\ pc' = "pb_item"
  /\ UNCHANGED <<blacklistFile, tmpF, dlVars>>
  /\ UNCHANGED <<run, exitCode, gen_blacklist, offset, batch, batch_count, dl_blacklist,
                 downloaded, attempt, last_error, dlResult>>
  /\ UNCHANGED <<errs, yielded, everInvalid, third>>
  /\ UNCHANGED <<timeVars, db_attempt, db_up, markVars>>
  /\ UNCHANGED <<countVars, otherVars, submitVars, toolVars>>

\* upload_file_to_drive returns (False, None, None): an exception or a null id
ProcessUploadFails ==
  /\ pc = "pb_upload"
  /\ LET i == downloaded[idx] IN
       /\ blacklistFile' = OnUploadFailure(blacklistFile, i)
       /\ pdfF' = Cleanup(pdfF, mmdF, CurDir, i)[1]
       /\ mmdF' = Cleanup(pdfF, mmdF, CurDir, i)[2]
  /\ lastOutcome' = "upload_failed"
  /\ idx' = idx + 1
  /\ pc' = "pb_item"
  /\ UNCHANGED <<storeVars, tmpF, uplF, dlVars>>
  /\ UNCHANGED <<run, exitCode, gen_blacklist, offset, batch, batch_count, dl_blacklist,
                 downloaded, attempt, last_error, dlResult, processed_count>>
  /\ UNCHANGED <<errs, yielded, everInvalid, third>>
  /\ UNCHANGED <<timeVars, db_attempt, db_up, markVars>>
  /\ UNCHANGED <<countVars, otherVars, submitVars, toolVars>>

(* --------------------------------- main -------------------------------- *)
\* the loop body up to the call of download_batch, and its first lines
MainBatchStart ==
  /\ pc = "batch_start"
  /\ hb_writes' = update_heartbeat(hb_writes)
  /\ dl_blacklist' = load_blacklist
  /\ downloaded' = <<>>
  /\ idx' = 1
  /\ pc' = "dl_item"
  \* the history of the batch starts
  /\ third' = {}
  /\ lastOutcome' = "none"
  /\ UNCHANGED <<storeVars, blacklistFile, fileVars, dlVars>>
  /\ UNCHANGED <<run, exitCode, gen_blacklist, offset, batch, batch_count, attempt,
                 last_error, dlResult, processed_count>>
  /\ UNCHANGED <<errs, yielded, everInvalid>>
  /\ UNCHANGED <<timeVars, db_attempt, db_up, markVars>>
  /\ UNCHANGED <<conv_failures, received, otherVars, submitVars, toolVars>>

\* "if not downloaded_batch": the loop over the batch reads the name blacklist, which
\* main does not define: NameError, caught by "except Exception", sys.exit(1)
MainAfterDownload ==
  /\ pc = "after_download"
  /\ IF downloaded = <<>>
     THEN /\ pc' = "exited"
          /\ exitCode' = 1
          /\ UNCHANGED <<idx, processed_count>>
     ELSE /\ pc' = "pb_item"
          /\ idx' = 1
          /\ processed_count' = 0
          /\ UNCHANGED exitCode
  /\ UNCHANGED <<storeVars, blacklistFile, fileVars, histVars, dlVars>>
  /\ UNCHANGED <<run, gen_blacklist, offset, batch, batch_count, dl_blacklist, downloaded,
                 attempt, last_error, dlResult>>
  /\ UNCHANGED <<timeVars, db_attempt, db_up, markVars>>
  /\ UNCHANGED <<countVars, otherVars, submitVars, toolVars>>

\* shutil.rmtree(current_batch_dir): the files of the directory afterwards
rmtree(f, d, empty) == [f EXCEPT ![d] = empty]

\* variant: the stall exit is taken as soon as the window is reached
StalledAtWindow(t, last) == t - last >= StallWindow

\* time.time() - last_successful_conversion > 900
Stalled(t, last) == t - last > StallWindow

\* after process_batch: the stall timer and the stall check, then rmtree and
\* batch_count += 1; t is what time.time() returns, dt seconds after its last value
MainAfterProcess ==
  /\ pc = "after_process"
  /\ \E dt \in BatchSeconds :
       LET t == now + dt IN
       /\ t <= MaxTime
       /\ now' = t
       /\ last_successful_conversion' =
            IF processed_count > 0 THEN t ELSE last_successful_conversion
       /\ IF processed_count = 0 /\ Stalled(t, last_successful_conversion)
          THEN \* "No successful conversions in 15 minutes. Exiting.": sys.exit(1)
               /\ pc' = "exited"
               /\ exitCode' = 1
               /\ UNCHANGED <<fileVars, batch_count, hb_writes>>
          ELSE /\ hb_writes' = update_heartbeat(hb_writes)
               /\ tmpF' = rmtree(tmpF, CurDir, EmptyDir)
               /\ pdfF' = rmtree(pdfF, CurDir, EmptyDir)
               /\ mmdF' = rmtree(mmdF, CurDir, NoFlags)
               /\ uplF' = rmtree(uplF, CurDir, NoFlags)
               /\ batch_count' = batch_count + 1
               /\ pc' = "gen_resume"
               /\ UNCHANGED exitCode
  /\ UNCHANGED <<storeVars, blacklistFile, histVars, dlVars>>
  /\ UNCHANGED <<run, gen_blacklist, offset, batch, dl_blacklist, downloaded, idx, attempt,
                 last_error, dlResult, processed_count>>
  /\ UNCHANGED <<db_attempt, db_up, markVars>>
  /\ UNCHANGED <<conv_failures, received, otherVars, submitVars, toolVars>>

(* --------------------------- process lifetime -------------------------- *)
\* what a new process starts with
FreshProcess ==
  /\ pc' = "start"
  /\ exitCode' = -1
  /\ gen_blacklist' = {}
  /\ offset' = 0
  /\ batch' = <<>>
  /\ batch_count' = 0
  /\ dl_blacklist' = <<>>
  /\ downloaded' = <<>>
  /\ idx' = 0
  /\ attempt' = 0
  /\ last_error' = NULL
  /\ dlResult' = FALSE
  /\ processed_count' = 0
  /\ errs' = <<>>
  /\ yielded' = {}
  /\ third' = {}
  /\ lastOutcome' = "none"
  \* last_successful_conversion = time.time(), the start of the process being second 0
  /\ now' = 0
  /\ last_successful_conversion' = 0
  /\ db_attempt' = 0
  /\ hb_writes' = 0
  /\ received' = EmptyDir

\* the process is killed (power loss, kill, out of memory): nothing is cleaned up; the
\* converter is started again with the work store, the blacklist file and the files as
\* they are
CrashRestart ==
  /\ pc # "exited"
  /\ run < MaxRuns
  /\ run' = run + 1
  /\ FreshProcess
  /\ UNCHANGED <<storeVars, blacklistFile, fileVars, everInvalid, dlVars>>
  /\ UNCHANGED <<db_up, markVars>>
  /\ UNCHANGED <<conv_failures, otherVars, submitVars, toolVars>>

\* the converter is started again after it has ended
Restart ==
  /\ pc = "exited"
  /\ run < MaxRuns
  /\ run' = run + 1
  /\ FreshProcess
  /\ UNCHANGED <<storeVars, blacklistFile, fileVars, everInvalid, dlVars>>
  /\ UNCHANGED <<db_up, markVars>>
  /\ UNCHANGED <<conv_failures, otherVars, submitVars, toolVars>>

(* --------------- downloader: process_records, get_records -------------- *)
\* the orders of the records of S
Perms(S) ==
  {f \in [1..Cardinality(S) -> S] : \A a, b \in 1..Cardinality(S) : a # b => f[a] # f[b]}

\* the results the query of get_records can have without OFFSET and LIMIT: the records
\* with a URL and without a path, ORDER BY year DESC; the order of records of the same
\* year is not defined and can differ from one execution of the query to the next
QueryByYear ==
  LET S == {i \in Ids : url[i] /\ ~path[i]}
  IN {f \in Perms(S) : \A a, b \in DOMAIN f : a < b => year[f[a]] >= year[f[b]]}

\* "while len(active_futures) < max_concurrent_downloads"
PoolHasRoom(n) == n < MaxConcurrent

\* next(records_generator) makes the generator run its query: "if not records: break"
\* ends it (StopIteration), otherwise the page is what it yields from
GrQuery ==
  /\ pr_pc = "fill"
  /\ PoolHasRoom(active_futures)
  /\ gr_state = "query"
  /\ \E f \in QueryByYear :
       LET records == Page(f, gr_offset, DlBatchSize)
       IN IF records = <<>>
          THEN /\ gr_state' = "ended"
               /\ UNCHANGED gr_page
          ELSE /\ gr_state' = "yield"
               /\ gr_page' = records
  /\ UNCHANGED <<pr_pc, gr_offset, submitted, active_futures>>
  /\ UNCHANGED <<convVars, dlVars, countVars, otherVars, toolVars, year, path, collected>>

\* the query of get_records raises SQLAlchemyError: it leaves the generator, next()
\* and the loop of process_records; the executor's "with" block waits for the running
\* tasks, and "except SQLAlchemyError" logs the error
GrQueryRaises ==
  /\ pr_pc = "fill"
  /\ PoolHasRoom(active_futures)
  /\ gr_state = "query"
  /\ gr_state' = "raised"
  /\ pr_pc' = "failed"
  /\ UNCHANGED <<gr_offset, gr_page, submitted, active_futures>>
  /\ UNCHANGED <<convVars, dlVars, countVars, otherVars, toolVars, year, path, collected>>

\* the generator yields the next record of its page and process_records submits
\* process_record for it; after the last record of the page offset += batch_size
PrSubmit ==
  /\ pr_pc = "fill"
  /\ PoolHasRoom(active_futures)
  /\ gr_state = "yield"
  /\ submitted' = Append(submitted, Head(gr_page))
  /\ active_futures' = active_futures + 1
  /\ gr_page' = Tail(gr_page)
  /\ IF Tail(gr_page) = <<>>
     THEN /\ gr_offset' = gr_offset + DlBatchSize
          /\ gr_state' = "query"
     ELSE UNCHANGED <<gr_offset, gr_state>>
  /\ UNCHANGED pr_pc
  /\ UNCHANGED <<convVars, dlVars, countVars, otherVars, toolVars, year, path, collected>>

\* the inner loop ends: the pool is full or the generator has ended; without active
\* futures the outer loop ends too
PrFillDone ==
  /\ pr_pc = "fill"
  /\ ~(PoolHasRoom(active_futures) /\ gr_state # "ended")
  /\ pr_pc' = IF active_futures = 0 THEN "done" ELSE "wait"
  /\ UNCHANGED <<gr_state, gr_offset, gr_page, submitted, active_futures>>
  /\ UNCHANGED <<convVars, dlVars, countVars, otherVars, toolVars, year, path, collected>>

\* the parameters of "def process_record(record_id, url_dnb_archive, download_dir,
\* session_factory)", none of which has a default
ProcessRecordParams == {"record_id", "url_dnb_archive", "download_dir", "session_factory"}

\* the keyword arguments of executor.submit(process_record, ...)
SubmitKeywords == {"record_id", "url_dnb_archive", "download_dir"}

\* how the call of process_record in the worker thread ends: the body runs and returns
\* (it catches its exceptions), or the call raises TypeError for a missing argument
TaskOutcome == IF ProcessRecordParams \subseteq SubmitKeywords THEN "returned" ELSE "TypeError"

\* next(as_completed(active_futures)): a task has ended. Every task ends with
\* TypeError, because process_record is submitted without its parameter
\* session_factory; result() raises it again and "except Exception" logs it. No task
\* downloads anything or sets a path
PrCollect ==
  /\ pr_pc = "wait"
  /\ active_futures' = active_futures - 1
  /\ collected' = Append(collected, TaskOutcome)
  /\ pr_pc' = "fill"
  /\ UNCHANGED <<gr_state, gr_offset, gr_page, submitted>>
  /\ UNCHANGED <<convVars, dlVars, countVars, otherVars, toolVars, year, path>>

(* ------------- add_to_blacklist of a second converter process ---------- *)
\* a second process has given up the download of record o_id and calls
\* add_to_blacklist: blacklist = load_blacklist(); blacklist[pdf_id] = reason
OtherLoad ==
  /\ o_pc = "idle"
  /\ \E i \in {j \in Ids : url[j]} : o_id' = i
  /\ o_copy' = load_blacklist
  /\ o_pc' = "loaded"
  /\ UNCHANGED <<convVars, dlVars, countVars, submitVars, toolVars>>

\* open(BLACKLIST_FILE, 'w'); json.dump(blacklist, f): the file is what was loaded
\* plus the entry
OtherDump ==
  /\ o_pc = "loaded"
  /\ blacklistFile' = add_to_blacklist(o_copy, o_id, "Download failed: timeout")
  /\ o_pc' = "done"
  /\ UNCHANGED <<o_copy, o_id>>
  /\ UNCHANGED <<storeVars, fileVars, procVars, histVars, db_up, markVars>>
  /\ UNCHANGED <<dlVars, countVars, submitVars, toolVars>>

(* ------------------ downloader: download_and_save_file ----------------- *)
\* requests.get raises, or raise_for_status does: return None
DRequestFails ==
  /\ d_pc = "idle"
  /\ d_pc' = "failed"
  /\ UNCHANGED <<d_tmp, d_final, convVars>>
  /\ UNCHANGED <<countVars, otherVars, submitVars, toolVars>>

\* the response arrives; tempfile.NamedTemporaryFile(delete=False, dir=download_dir, ...)
DOpen ==
  /\ d_pc = "idle"
  /\ d_tmp' = Partial
  /\ d_pc' = "writing"
  /\ UNCHANGED <<d_final, convVars>>
  /\ UNCHANGED <<countVars, otherVars, submitVars, toolVars>>

\* all chunks are written, flush, fsync; shutil.move(temp_file_path, final_file_path)
DMove ==
  /\ d_pc = "writing"
  /\ \E c \in Contents :
       /\ d_final' = c
       /\ d_tmp' = NoFile
  /\ d_pc' = "saved"
  /\ UNCHANGED convVars
  /\ UNCHANGED <<countVars, otherVars, submitVars, toolVars>>

\* iter_content or write raises: return None; finally: os.unlink(temp_file_path)
DWriteFails ==
  /\ d_pc = "writing"
  /\ d_tmp' = NoFile
  /\ d_pc' = "failed"
  /\ UNCHANGED <<d_final, convVars>>
  /\ UNCHANGED <<countVars, otherVars, submitVars, toolVars>>

\* the downloader is killed while it writes the temporary file
DCrash ==
  /\ d_pc = "writing"
  /\ d_pc' = "crashed"
  /\ UNCHANGED <<d_tmp, d_final, convVars>>
  /\ UNCHANGED <<countVars, otherVars, submitVars, toolVars>>

\* the downloader runs again: the record has no path yet, so it is downloaded again
DRetry ==
  /\ d_pc \in {"failed", "crashed"}
  /\ d_pc' = "idle"
  /\ UNCHANGED <<d_tmp, d_final, convVars>>
  /\ UNCHANGED <<countVars, otherVars, submitVars, toolVars>>

Next ==
  \/ GenStart
  \/ GenCountFails
  \/ GenRead
  \/ GenResume
  \/ MainBatchStart
  \/ DownloadBatchNext
  \/ DwRequestFails
  \/ DwOpen
  \/ DwStreamFails
  \/ DwUnexpected
  \/ DwValidate
  \/ DownloadBatchResult
  \/ MainAfterDownload
  \/ ProcessBatchNext
  \/ ProcessConvert
  \/ ProcessUploadOk
  \/ ProcessUploadFails
  \/ MainAfterProcess
  \/ CrashRestart
  \/ Restart

NextDownloader ==
  \/ DRequestFails
  \/ DOpen
  \/ DMove
  \/ DWriteFails
  \/ DCrash
  \/ DRetry

\* the converter alone
Spec == Init /\ [][Next]_vars

\* the downloader's process_records with its generator
NextSubmit ==
  \/ GrQuery
  \/ GrQueryRaises
  \/ PrSubmit
  \/ PrFillDone
  \/ PrCollect

\* the downloader's main loop alone
SpecSubmit == InitSubmit /\ [][NextSubmit]_vars

\* add_to_blacklist as a second converter process runs it
NextOther ==
  \/ OtherLoad
  \/ OtherDump

\* the query of get_pdf_links with a database that can be unreachable
NextStall ==
  \/ GenDbError
  \/ GenRetry
  \/ DbDown
  \/ DbUp

\* the converter and a database that fails: a process that is not killed takes its
\* next step (a killed one is started again or not), and a database that is reachable
\* again and again is reached by one of the queries; nothing makes the database come
\* back
SpecStall ==
  /\ InitFetch
  /\ [][Next \/ NextStall]_vars
  /\ SF_vars(Next /\ run' = run)
  /\ SF_vars(GenDbError)
  /\ SF_vars(GenRetry)

\* the converter and a second converter process that adds one entry to the same
\* blacklist file
SpecShared == InitShared /\ [][Next \/ NextOther]_vars

\* the completion recorder alone: calls of mark_record_as_processed in any order
SpecMark == Init /\ [][MarkCall]_vars

\* the two fetchers: the converter and the downloader's download_and_save_file
SpecFetch == InitFetch /\ [][Next \/ NextDownloader]_vars

(* ============================== claims ================================= *)
\* the item download_with_retry is working on, or has just returned for
CurItem == batch[idx]

\* download_with_retry has returned and download_batch has not yet used the result
Returned == pc = "dw_returned"

AllNet(es) == \A k \in DOMAIN es : es[k].kind = "net"

\* process_batch is running and has finished with the item at position k
InProcessBatch == pc \in {"pb_item", "pb_convert", "pb_upload", "after_process"}
Finished(k) == InProcessBatch /\ k \in DOMAIN downloaded /\ k < idx

\* C1: when the generator of get_pdf_links finishes (the for loop of main ends and the
\* process exits with status 0), every record with a source URL, no converted_file and
\* no blacklist entry has been yielded in some batch of this run.
C1_DrainedWhenFinished ==
  (pc = "exited" /\ exitCode = 0) =>
    \A i \in Ids :
      (url[i] /\ converted_file[i] = NULL /\ i \notin DOMAIN blacklistFile) => i \in yielded

C3_InvalidBlacklistedNotConverted ==
  /\ \A i \in everInvalid :
       /\ i \in DOMAIN blacklistFile
       /\ blacklistFile[i] # ""
       /\ i \notin Range(downloaded)
  /\ pc = "pb_convert" =>
       /\ downloaded[idx] \notin everInvalid
       /\ validate_pdf(pdfF[CurDir][downloaded[idx]])[1]

\* C3 witness: the converter is called for an item of a batch in which another item
\* failed validation.
C3_Witness ==
  /\ pc = "pb_convert"
  /\ \E i \in everInvalid : i \in Range(batch)

\* C4: a validation failure is the last attempt of its call: no request follows it, and
\* the call returns False with the item blacklisted with the reason validate_pdf gave.
C4_ValidationFailureNotRetried ==
  /\ \A k \in DOMAIN errs : errs[k].kind = "invalid" => k = Len(errs)
  /\ (Returned /\ errs # <<>> /\ errs[Len(errs)].kind = "invalid") =>
       /\ ~dlResult
       /\ CurItem \in DOMAIN blacklistFile
       /\ blacklistFile[CurItem] = errs[Len(errs)].what

\* C4 witness: the call returned after a network error in the first attempt and a
\* validation failure in the second.
C4_Witness ==
  /\ Returned
  /\ Len(errs) = 2
  /\ errs[1].kind = "net"
  /\ errs[2].kind = "invalid"

\* C5: a call of download_with_retry makes at most max_retries requests; when all of
\* them failed with a network error the call has made max_retries requests, returns
\* False and the item is blacklisted with the error of the last attempt.
C5_RetryBound ==
  /\ Len(errs) <= MaxRetries
  /\ attempt <= MaxRetries
  /\ (Returned /\ AllNet(errs)) =>
       /\ Len(errs) = MaxRetries
       /\ ~dlResult
       /\ CurItem \in DOMAIN blacklistFile
       /\ blacklistFile[CurItem] = "Download failed: " \o errs[MaxRetries].what

\* C5 witness: all attempts failed, the last one with another error than the first.
C5_Witness ==
  /\ Returned
  /\ Len(errs) = MaxRetries
  /\ AllNet(errs)
  /\ errs[1].what # errs[MaxRetries].what

\* C6: after two network errors a third attempt is made; when it delivers valid content
\* the call returns True, the item is not blacklisted and goes to process_batch, and
\* unless a later step (pre-check, conversion, upload, recording) fails it is marked
\* uploaded with its external id.
C6_ThirdAttemptSucceeds ==
  /\ (Returned /\ Len(errs) >= 2 /\ errs[1].kind = "net" /\ errs[2].kind = "net") =>
       Len(errs) = 3
  /\ \A i \in third :
       /\ i \notin DOMAIN blacklistFile
       /\ \/ (Returned /\ CurItem = i /\ dlResult)
          \/ i \in Range(downloaded)
  /\ \A k \in DOMAIN downloaded :
       (Finished(k) /\ k = idx - 1 /\ pc = "pb_item" /\ downloaded[k] \in third) =>
         \/ /\ converted_file[downloaded[k]] = "mmd name"
            /\ drive_file_id[downloaded[k]] = "drive id"
         \/ lastOutcome \in {"precheck_failed", "convert_failed", "upload_failed",
                             "record_failed"}

\* C6 witness: an item downloaded at the third attempt has been converted, uploaded and
\* marked.
C6_Witness ==
  /\ pc = "pb_item"
  /\ idx > 1
  /\ downloaded[idx - 1] \in third
  /\ lastOutcome = "success"
  /\ converted_file[downloaded[idx - 1]] = "mmd name"

C8_NoFilesLeftOnReturn ==
  Returned =>
    /\ tmpF[CurDir][CurItem] = NoFile
    /\ ~dlResult => pdfF[CurDir][CurItem] = NoFile

\* C9: once process_batch has finished with an item, neither its source PDF nor its
\* .mmd file is at its working path in the batch directory.
C9_WorkFilesRemoved ==
  \A k \in DOMAIN downloaded :
    Finished(k) =>
      /\ pdfF[CurDir][downloaded[k]] = NoFile
      /\ ~mmdF[CurDir][downloaded[k]]

\* C9 witness: process_batch has finished with an item whose artifact was uploaded but
\* whose completion could not be recorded, and before that with another item.
C9_Witness ==
  /\ pc = "pb_item"
  /\ idx > 2
  /\ lastOutcome = "record_failed"

\* C10: when the upload of an item has failed, its .mmd and its source PDF are removed,
\* the record is not marked (converted_file and drive_file_id stay NULL) and the item is
\* not in the blacklist, so the query of get_pdf_links still selects it.
C10_UploadFailureLeavesItemPending ==
  (pc = "pb_item" /\ idx > 1 /\ lastOutcome = "upload_failed") =>
    LET i == downloaded[idx - 1] IN
      /\ pdfF[CurDir][i] = NoFile
      /\ ~mmdF[CurDir][i]
      /\ converted_file[i] = NULL
      /\ drive_file_id[i] = NULL
      /\ i \notin DOMAIN blacklistFile
      /\ i \in Selectable(DOMAIN blacklistFile)

\* C10 witness: in a later run, the upload of an item has just failed while another
\* item of a run before is blacklisted.
C10_Witness ==
  /\ pc = "pb_item"
  /\ idx > 1
  /\ lastOutcome = "upload_failed"
  /\ run > 1
  /\ blacklistFile # <<>>

\* C11: the artifact of an item that the work store shows as uploaded is still in the
\* "uploaded" area of a batch directory: the pipeline does not delete it, neither at the
\* end of the batch in which it was uploaded nor later.
C11_UploadedArtifactKept ==
  \A i \in Ids : drive_file_id[i] # NULL => \E d \in Dirs : uplF[d][i]

\* C12: mark_record_as_processed is idempotent: after a call that repeats the call
\* before it (same id, same external id, same name) the work store is what it was after
\* the first of the two calls; every call returns, with or without a record of that id.
C12_MarkIdempotent ==
  m_repeat => <<converted_file, drive_file_id>> = m_once

\* C12 witness: a successful outcome has been recorded twice in a row for a record,
\* while another record is marked as well.
C12_Witness ==
  /\ m_repeat
  /\ m_args[1] \in Ids
  /\ m_args[2] = "drive id"
  /\ converted_file[m_args[1]] = "mmd name"
  /\ \E j \in Ids : j # m_args[1] /\ converted_file[j] # NULL

\* the process is running and more than the stall window has passed since its last
\* batch with a successful item (or since its start): no item has completed since
Overdue == pc # "exited" /\ now - last_successful_conversion > StallWindow

\* C13: a process in which no item has completed for longer than the stall window does
\* not run on or hang: it ends (the claim: with a non-zero exit status), unless it is
\* killed first, whatever keeps it from completing items.
C13_StallExits ==
  \A r \in 1..MaxRuns :
    (run = r /\ Overdue) ~> (run # r \/ pc = "exited")

\* C14: the stall exit is taken only without progress: main leaves the batch boundary
\* with the stall exit only if no item of the batch just processed completed
\* successfully and more than the stall window has passed since the last batch with a
\* successful item (or since the start).
C14_NoStallExitWhileProgress ==
  [][(pc = "after_process" /\ pc' = "exited") =>
       /\ processed_count = 0
       /\ now' - last_successful_conversion > StallWindow]_vars

\* C14 witness: a batch without a successful item has ended exactly one stall window
\* after the start of the process, and main has gone on to the next batch.
C14_Witness ==
  /\ pc = "gen_resume"
  /\ processed_count = 0
  /\ downloaded # <<>>
  /\ now - last_successful_conversion = StallWindow

\* C15: failures of items do not end the run: when download_batch has returned, with
\* every download of the batch failed or not, main goes on (to process_batch or to the
\* next batch) and does not exit.
C15_ItemFailuresDoNotExit ==
  [][pc = "after_download" => pc' # "exited"]_vars

\* C16: when the process has ended with exit status 0 the queue is drained: no record
\* has a source URL, no converted_file and no blacklist entry.
C16_ExitZeroOnlyWhenDrained ==
  (pc = "exited" /\ exitCode = 0) => Selectable(DOMAIN blacklistFile) = {}

\* C17: a run that found the database unreachable at its start (get_total_records
\* failed at every attempt of retry_on_db_error) has ended with a non-zero exit status.
C17_StartupFailureExitsNonZero ==
  (pc = "exited" /\ db_attempt = DbMaxRetries - 1) => exitCode # 0

\* C18: the end states of an item are terminal: no step changes the converted_file or
\* the drive_file_id of a record whose converted_file is set, and no step starts a
\* download or a conversion of such a record, in the run that marked it or a later one.
C18_MarkedIsTerminal ==
  [][/\ \A i \in Ids :
          converted_file[i] # NULL =>
            /\ converted_file'[i] = converted_file[i]
            /\ drive_file_id'[i] = drive_file_id[i]
     /\ pc' = "dw_attempt" => converted_file'[batch'[idx']] = NULL
     /\ pc' = "pb_convert" => converted_file'[downloaded'[idx']] = NULL]_vars

\* C18 witness: in a later run a download starts while one record is marked uploaded
\* and another is marked failed.
C18_Witness ==
  /\ run > 1
  /\ pc = "dw_attempt"
  /\ \E i \in Ids : drive_file_id[i] # NULL
  /\ \E i \in Ids : converted_file[i] # NULL /\ drive_file_id[i] = NULL

UploadedInStep(i) ==
  /\ pc = "pb_upload"
  /\ downloaded[idx] = i
  /\ uplF'[CurDir][i]

\* C20 (as claimed): converted_file and drive_file_id of a record are set only in the
\* step in which the upload of its artifact has succeeded.
C20_RefOnlyAfterUpload ==
  [][\A i \in Ids :
       (converted_file'[i] # converted_file[i] \/ drive_file_id'[i] # drive_file_id[i])
         => UploadedInStep(i)]_vars

\* C20 (amended): the external id drive_file_id of a record is set only in the step in
\* which the upload of its artifact has succeeded, together with the name of the
\* uploaded file in converted_file; converted_file alone is also set, without an upload
\* and with drive_file_id left NULL, to a failure marker by download_batch.
C20_ExternalIdOnlyAfterUpload ==
  [][\A i \in Ids :
       /\ drive_file_id'[i] # drive_file_id[i] =>
            /\ UploadedInStep(i)
            /\ drive_file_id'[i] = "drive id"
            /\ converted_file'[i] = "mmd name"
       /\ (converted_file'[i] # converted_file[i] /\ ~UploadedInStep(i)) =>
            /\ pc \in {"dl_item", "dw_returned"}
            /\ batch[idx] = i
            /\ drive_file_id'[i] = NULL
            /\ converted_file'[i] \notin {NULL, "mmd name"}]_vars

\* C20 witness: the record process_batch handled last was uploaded and marked with its
\* external id, and another record of the same batch carries a failure marker.
C20_Witness ==
  /\ pc = "pb_item"
  /\ idx > 1
  /\ lastOutcome = "success"
  /\ drive_file_id[downloaded[idx - 1]] = "drive id"
  /\ uplF[CurDir][downloaded[idx - 1]]
  /\ \E j \in Range(batch) : converted_file[j] = "Failed: Unknown error"

\* C21: a conversion exception fails the item without a retry in the same run and
\* leaves it unprocessed, and an item whose conversion has failed the configured number
\* of times is blacklisted, so that no item is reprocessed by an unbounded number of
\* runs: here, an item whose conversion has raised in every one of MaxRuns runs is in
\* the blacklist file
C21_PoisonDocumentBlacklisted ==
  \A i \in Ids : conv_failures[i] >= MaxRuns => i \in DOMAIN blacklistFile

\* C22: with a pool of K conversion slots (here the one converter of the process), a
\* task whose conversion raises gets at most K conversion attempts in a run; it is
\* then reported as failed, process_batch goes on with the next item, and the item is
\* neither blacklisted nor marked
C22_ConversionAttemptsBounded ==
  [][\A i \in Ids :
       /\ conv_failures'[i] <= run' * ConversionSlots
       /\ conv_failures'[i] > conv_failures[i] =>
            /\ pc = "pb_convert" /\ i = downloaded[idx]
            /\ lastOutcome' = "convert_failed"
            /\ pc' = "pb_item" /\ idx' = idx + 1
            /\ blacklistFile' = blacklistFile
            /\ converted_file' = converted_file
            /\ processed_count' = processed_count]_vars

\* the conversion of an item has just raised; the item is neither blacklisted nor marked
C22_Witness ==
  /\ pc = "pb_item"
  /\ lastOutcome = "convert_failed"
  /\ \E k \in DOMAIN downloaded :
       /\ k = idx - 1
       /\ conv_failures[downloaded[k]] = ConversionSlots
       /\ downloaded[k] \notin DOMAIN blacklistFile
       /\ converted_file[downloaded[k]] = NULL

\* C23: blacklist writers are serialized: when add_to_blacklist of a second process
\* overlaps the converter's add_to_blacklist for another id, both entries are in the
\* file after both have finished (everInvalid: ids the converter has blacklisted for a
\* failed validation)
C23_NoLostBlacklistEntry ==
  o_pc = "done" => \A i \in everInvalid \cup {o_id} : i \in DOMAIN blacklistFile

\* C24: the blacklist file is re-read for every batch (download_batch loads it when
\* the batch starts and keeps that reading for the batch), and an item that is in the
\* file when its batch starts downloading is never downloaded: download_with_retry is
\* called only for an item that is not in that reading
C24_BlacklistReadPerBatch ==
  [][/\ (pc = "batch_start" /\ pc' = "dl_item") => dl_blacklist' = blacklistFile
     /\ dl_blacklist' # dl_blacklist => (pc = "batch_start" \/ pc' = "start")
     /\ (pc = "dl_item" /\ pc' = "dw_attempt") => batch[idx] \notin DOMAIN dl_blacklist
     /\ pc' \in {"dw_attempt", "dw_write"} => pc \in {"dl_item", "dw_attempt", "dw_write"}]_vars

\* an item that the second process blacklisted after this run's query had selected it
\* has been skipped by download_batch: it is marked, and no file of it was written
C24_Witness ==
  /\ pc = "dl_item"
  /\ \E k \in DOMAIN batch :
       /\ k < idx
       /\ batch[k] \in DOMAIN dl_blacklist
       /\ batch[k] \notin gen_blacklist
       /\ converted_file[batch[k]] = "Blacklisted: " \o dl_blacklist[batch[k]]
       /\ pdfF[CurDir][batch[k]] = NoFile
       /\ tmpF[CurDir][batch[k]] = NoFile

\* the step changes a status field of record i
StatusChanged(i) ==
  converted_file'[i] # converted_file[i] \/ drive_file_id'[i] # drive_file_id[i]

\* C25: reading a batch has no side effect on the work store: the steps of
\* get_pdf_links (and main's step between the yield and download_batch) change no
\* field of a record, and converted_file or drive_file_id of a record changes only in
\* the step that records a failure (download_batch, for the item at hand) or a
\* completion (process_batch after the upload of the item at hand) for that record
C25_ReadingLeavesStore ==
  [][/\ pc \in {"start", "gen_read", "gen_resume", "batch_start"} => UNCHANGED storeVars
     /\ url' = url
     /\ \A i \in Ids :
          StatusChanged(i) =>
            \/ /\ pc \in {"dl_item", "dw_returned"}
               /\ i = batch[idx]
               /\ drive_file_id'[i] = NULL
               /\ converted_file'[i] \notin {NULL, "mmd name"}
            \/ /\ pc = "pb_upload"
               /\ i = downloaded[idx]
               /\ drive_file_id'[i] = "drive id"
               /\ converted_file'[i] = "mmd name"]_vars

\* get_pdf_links has yielded a batch of two, and every record is as it was before
C25_Witness ==
  /\ pc = "batch_start"
  /\ Len(batch) = BatchSize
  /\ \A i \in Ids : converted_file[i] = NULL /\ drive_file_id[i] = NULL

\* the scenario of C26 at the end of process_batch: the batch is A and B in either
\* order, the server sent a valid PDF of 3 pages for A and a body without the PDF
\* signature for B, and nothing else went wrong on A's way (its conversion, its upload
\* and the recording of it did not raise)
Scenario(A, B) ==
  /\ pc = "after_process"
  /\ Range(batch) = {A, B} /\ A # B
  /\ received[A] = [sig |-> TRUE, pages |-> 3]
  /\ ~received[B].sig /\ received[B] # NoFile
  /\ lastOutcome \notin {"precheck_failed", "convert_failed", "upload_failed",
                         "record_failed"}

\* C26: in a batch of two items, A with valid content and B with a corrupt signature,
\* after one pipeline iteration A is marked uploaded with a non-null external id and B
\* is marked permanently failed and is in the blacklist with the invalid-signature
\* reason; B's failure does not affect A
C26_ValidAndCorruptItem ==
  \A A, B \in Ids :
    Scenario(A, B) =>
      /\ downloaded = <<A>>
      /\ converted_file[A] = "mmd name"
      /\ drive_file_id[A] # NULL
      /\ uplF[CurDir][A]
      /\ A \notin DOMAIN blacklistFile
      /\ converted_file[B] \notin {NULL, "mmd name"}
      /\ drive_file_id[B] = NULL
      /\ B \in DOMAIN blacklistFile
      /\ blacklistFile[B] = "Invalid PDF signature"
      /\ B \notin Range(downloaded)

\* the end of the scenario, B being the first item of the batch
C26_Witness ==
  /\ run = 1 /\ batch_count = 0
  /\ Len(batch) = 2
  /\ Scenario(batch[2], batch[1])
  /\ processed_count = 1
  /\ blacklistFile[batch[1]] = "Invalid PDF signature"
  /\ drive_file_id[batch[2]] = "drive id"

\* C27: the heartbeat file is rewritten at least once for every batch the main loop
\* takes from the cursor, before any item of that batch is downloaded: the step that
\* takes the batch writes it, download_batch is entered by that step alone, and while
\* a batch is worked on the file has been written more often than batches were finished
C27_HeartbeatPerBatch ==
  [][/\ (pc = "batch_start" /\ pc' = "dl_item") => hb_writes' > hb_writes
     /\ (pc' \in {"dl_item", "dw_attempt", "dw_write", "dw_returned"}
           /\ pc \notin {"dl_item", "dw_attempt", "dw_write", "dw_returned"})
          => pc = "batch_start"
     /\ pc' \in {"dl_item", "dw_attempt", "dw_write", "dw_returned"}
          => hb_writes' > 2 * batch_count']_vars

\* the download of the second batch of a run has started, the file was written for it
C27_Witness ==
  /\ pc = "dw_attempt"
  /\ batch_count = 1
  /\ hb_writes = 3

\* C28: when the pipeline exits because of the stall timeout, no item is in the middle
\* of download, conversion or upload (download_batch and process_batch have returned,
\* every item of the batch is failed, or downloaded and handled), and no partially
\* written file of an item is left behind: none of the batch in its directory, where
\* the work files of the downloaded items are removed too, and none at all in the
\* first run of the pipeline
C28_StallExitLeavesNothingHalfDone ==
  [][(pc = "after_process" /\ pc' = "exited") =>
       /\ exitCode' = 1
       /\ idx > Len(downloaded)
       /\ \A i \in Range(batch) :
            /\ i \in Range(downloaded) \/ converted_file'[i] # NULL
            /\ tmpF'[CurDir][i] = NoFile
            /\ pdfF'[CurDir][i] # Partial
            /\ i \in Range(downloaded) => pdfF'[CurDir][i] = NoFile /\ ~mmdF'[CurDir][i]
       /\ run = 1 => \A d \in Dirs, i \in Ids : tmpF'[d][i] # Partial /\ pdfF'[d][i] # Partial
    ]_vars

\* the process has ended with the stall exit after a batch of which something was
\* downloaded and nothing was processed
C28_Witness ==
  /\ pc = "exited"
  /\ exitCode = 1
  /\ downloaded # <<>>
  /\ idx > Len(downloaded)
  /\ processed_count = 0
  /\ now - last_successful_conversion > StallWindow

\* the longest wait the attempt ceiling allows: 2 ** (max_retries - 2)
MaxDelay == 2 ^ (MaxRetries - 2)

\* attempt k of the item at hand failed and another attempt follows it
Followed(k) == k < Len(errs) \/ (k = Len(errs) /\ pc \in {"dw_attempt", "dw_write"})

C30_NoRecordSubmittedTwice ==
  \A a, b \in DOMAIN submitted : a # b => submitted[a] # submitted[b]

\* C31: the downloader's worker pool is bounded: in process_records the number of
\* submitted and not yet collected tasks never exceeds max_concurrent_downloads, and
\* the loop ends only when the record generator is exhausted and no task is active
C31_PoolBoundedEndsDrained ==
  /\ active_futures <= MaxConcurrent
  /\ pr_pc \in {"done", "failed"} => (gr_state = "ended" /\ active_futures = 0)

C33_DbErrorKeepsOffset ==
  [][/\ pc \in {"gen_read", "gen_sleep"} /\ pc' \in {"gen_read", "gen_sleep"}
          => (offset' = offset /\ batch' = batch /\ yielded' = yielded)
     /\ offset' # offset
          => (pc = "gen_resume" /\ offset' = offset + BatchSize) \/ pc' = "start"
     /\ (pc = "gen_read" /\ pc' = "batch_start")
          => (batch' = Query(gen_blacklist, offset, BatchSize)
               /\ Range(batch') \cap yielded = {})]_vars

\* the batch at offset 0 has been yielded after a read of offset 0 failed and the
\* generator slept
C33_Witness ==
  /\ pc = "batch_start"
  /\ offset = 0
  /\ batch # <<>>
  /\ now = RetrySleep


\* C35: when the download of an item has failed inside download_batch and the item is
\* marked as failed, the marker written to the work store is "Failed: " followed by the
\* reason the failed download stored in the blacklist file for that item.
C35_FailedMarkerCarriesReason ==
  [][(/\ pc = "dw_returned" /\ ~dlResult /\ pc' = "dl_item"
      /\ converted_file'[batch[idx]] # converted_file[batch[idx]]
      /\ converted_file'[batch[idx]] # "Error: database"
      /\ batch[idx] \in DOMAIN blacklistFile)
        => converted_file'[batch[idx]] = "Failed: " \o blacklistFile[batch[idx]]]_vars


(* ------------------------- retry_on_db_error --------------------------- *)
\* variant: the last attempt is not told from the others
LastAttemptNever(a, m) == FALSE

\* "if attempt == max_retries - 1: raise"
LastAttempt(a, m) == a = m - 1

\* "for attempt in range(max_retries)": the loop has an attempt left
InRange(a, m) == a < m

\* the wrapped function returns: "return func(*args, **kwargs)"
RetryCallReturns ==
  /\ r_state = "calling"
  /\ InRange(r_attempt, r_max)
  /\ r_calls' = r_calls + 1
  /\ r_state' = "returned"
  /\ UNCHANGED <<r_max, r_attempt>>
  /\ UNCHANGED <<convVars, dlVars, countVars, otherVars, submitVars, abstractVars, migrateVars>>

\* the wrapped function raises OperationalError or SQLAlchemyError: raised again at the
\* last attempt, else the wrapper sleeps and goes to the next attempt
RetryCallRaisesDb ==
  /\ r_state = "calling"
  /\ InRange(r_attempt, r_max)
  /\ r_calls' = r_calls + 1
  /\ IF LastAttempt(r_attempt, r_max)
     THEN r_state' = "raised_db" /\ r_attempt' = r_attempt
     ELSE r_state' = r_state /\ r_attempt' = r_attempt + 1
  /\ UNCHANGED r_max
  /\ UNCHANGED <<convVars, dlVars, countVars, otherVars, submitVars, abstractVars, migrateVars>>

\* the wrapped function raises any other exception: no except clause takes it
RetryCallRaisesOther ==
  /\ r_state = "calling"
  /\ InRange(r_attempt, r_max)
  /\ r_calls' = r_calls + 1
  /\ r_state' = "raised_other"
  /\ UNCHANGED <<r_max, r_attempt>>
  /\ UNCHANGED <<convVars, dlVars, countVars, otherVars, submitVars, abstractVars, migrateVars>>

\* the for loop is left with no attempt: "return None"
RetryLoopEnd ==
  /\ r_state = "calling"
  /\ ~InRange(r_attempt, r_max)
  /\ r_state' = "returned_none"
  /\ UNCHANGED <<r_max, r_attempt, r_calls>>
  /\ UNCHANGED <<convVars, dlVars, countVars, otherVars, submitVars, abstractVars, migrateVars>>

NextRetry ==
  \/ RetryCallReturns
  \/ RetryCallRaisesDb
  \/ RetryCallRaisesOther
  \/ RetryLoopEnd

\* one invocation of a wrapped function, for every max_retries up to the default
InitRetry ==
  /\ url = [i \in Ids |-> TRUE]
  /\ year = [i \in Ids |-> LastYear]
  /\ path = [i \in Ids |-> FALSE]
  /\ r_max \in 0..DbMaxRetries
  /\ InitRest

SpecRetry == InitRetry /\ [][NextRetry]_vars

\* C34: a function wrapped by retry_on_db_error(max_retries) is called at most max_retries
\* times per invocation; the first call that succeeds ends the invocation (every call
\* before it raised a database error) and no call follows it; the database error is raised
\* to the caller only by the call number max_retries; any other error ends the invocation
\* at the call that raised it.
C34_RetryAtMostMaxRetries ==
  /\ [](/\ r_calls <= r_max
        /\ r_state = "calling" => r_calls = r_attempt
        /\ r_state \in {"returned", "raised_other"} => r_calls = r_attempt + 1
        /\ r_state = "raised_db" => (r_calls = r_max /\ r_attempt = r_max - 1)
        /\ r_state = "returned_none" => (r_max = 0 /\ r_calls = 0))
  /\ [][/\ r_state # "calling" => r_calls' = r_calls
        /\ r_calls' \in {r_calls, r_calls + 1}
        /\ (r_state = "calling" /\ r_state' = "calling") => r_calls < r_max]_vars

\* all calls of an invocation with the default max_retries have raised a database error
C34_Witness ==
  /\ r_max = DbMaxRetries
  /\ r_state = "raised_db"
  /\ r_calls = DbMaxRetries


(* --------------------------- add_to_blacklist -------------------------- *)
\* reasons download_with_retry hands to add_to_blacklist
BlacklistReasons ==
  {"Invalid PDF signature", "PDF has no pages", "Download failed: timeout", "Unknown error"}

\* convert.load_blacklist with the outcome of reading the file: json.load(f), or {} when
\* the file is missing or open or json.load raises (the error is logged)
load_blacklist_outcome(readable) == IF readable THEN blacklistFile ELSE <<>>

\* one call add_to_blacklist(pdf_id, reason): load_blacklist(), blacklist[pdf_id] = reason,
\* json.dump to the file
AddToBlacklistCall ==
  /\ \E pdf_id \in Ids, reason \in BlacklistReasons, readable \in BOOLEAN :
       blacklistFile' = add_to_blacklist(load_blacklist_outcome(readable), pdf_id, reason)
  /\ UNCHANGED <<storeVars, fileVars, procVars, histVars, db_up, markVars>>
  /\ UNCHANGED <<dlVars, countVars, otherVars, submitVars, toolVars>>

\* calls of add_to_blacklist in any order
SpecBlacklist == Init /\ [][AddToBlacklistCall]_vars

\* C36: add_to_blacklist never removes or changes the entry of another item: a call that
\* changes the blacklist file leaves every entry of the file, but the one of the item it
\* stores, in the file with its reason, whatever the outcome of reading the file.
C36_AddKeepsOtherEntries ==
  [][blacklistFile' # blacklistFile =>
       \E pdf_id \in DOMAIN blacklistFile' :
         \A j \in (DOMAIN blacklistFile) \ {pdf_id} :
           j \in DOMAIN blacklistFile' /\ blacklistFile'[j] = blacklistFile[j]]_vars


\* C37: in the downloader, the task that process_records submits for a record that
\* get_records has yielded executes process_record: every task collected so far has run
\* the body of process_record and returned from it.
C37_TaskExecutesProcessRecord ==
  /\ Len(collected) <= Len(submitted)
  /\ \A k \in DOMAIN collected : collected[k] = "returned"


(* ---------------------- abstract finder: main loop --------------------- *)
\* the records the query "filter(DNBRecord.abstract_num == None)" selects
AfPending == {i \in Ids : abstract_num[i] = AbstractUnset}

\* process_batch: "for record in batch if record.path"
AfAnalysed(b) == {i \in b : path[i]}

\* the query of the main loop: up to batch_size of the selected records, in no stated
\* order; "if not batch: break"
AfQuery ==
  /\ af_pc = "query"
  /\ IF AfPending = {}
     THEN af_pc' = "done" /\ af_batch' = {}
     ELSE /\ \E b \in SUBSET AfPending :
               /\ Cardinality(b) = Min({AfBatchSize, Cardinality(AfPending)})
               /\ af_batch' = b
          /\ af_pc' = "process"
  /\ UNCHANGED abstract_num
  /\ UNCHANGED <<convVars, dlVars, countVars, otherVars, submitVars, retryVars, migrateVars>>

\* process_batch with the commits of the records in rolled failing: process_file gives
\* a count for each record that has a path (0 when the file cannot be analysed), the
\* count is stored and committed, or rolled back when the commit fails
AfProcess(rolled) ==
  /\ af_pc = "process"
  /\ \E counts \in [AfAnalysed(af_batch) -> {0, 1}] :
       abstract_num' = [i \in Ids |->
                          IF i \in AfAnalysed(af_batch) \ rolled THEN counts[i]
                          ELSE abstract_num[i]]
  /\ af_pc' = "query"
  /\ UNCHANGED af_batch
  /\ UNCHANGED <<convVars, dlVars, countVars, otherVars, submitVars, retryVars, migrateVars>>

AfProcessBatch == \E rolled \in SUBSET AfAnalysed(af_batch) : AfProcess(rolled)

\* process_batch when every commit succeeds
AfProcessBatchCommitted == AfProcess({})

NextAbstract ==
  \/ AfQuery
  \/ AfProcessBatch

\* any table: each record with or without a local file path, analysed before or not
InitAbstract ==
  /\ url = [i \in Ids |-> TRUE]
  /\ year = [i \in Ids |-> LastYear]
  /\ path \in [Ids -> BOOLEAN]
  /\ r_max = DbMaxRetries
  /\ InitRest

\* the loop goes on, and the commits do not fail for ever
SpecAbstract ==
  /\ InitAbstract /\ [][NextAbstract]_vars
  /\ WF_vars(AfQuery) /\ SF_vars(AfProcessBatchCommitted)

\* C38: the main loop of the abstract finder terminates for every finite table: after
\* finitely many batches the query for records with abstract_num unset returns no row,
\* also when records have no local file path or their file cannot be analysed.
C38_AbstractFinderTerminates == <>(af_pc = "done")


(* ------------------ migration from SQLite to PostgreSQL ---------------- *)
\* the records read from SQLite, in the order of the for loop
MgRecords == 1..MgNumRecords

\* session.rollback(): the open transaction is rolled back, with every insert flushed
\* in it
AfterRollback(pending) == {}

\* session.add and session.flush succeed for the record: it is inserted in the open
\* transaction
MgInsertOk ==
  /\ mg_pc = "insert"
  /\ mg_idx \in MgRecords
  /\ mg_pending' = mg_pending \cup {mg_idx}
  /\ successful_inserts' = successful_inserts + 1
  /\ mg_idx' = mg_idx + 1
  /\ UNCHANGED <<mg_pc, mg_table, failed_inserts>>
  /\ UNCHANGED <<convVars, dlVars, countVars, otherVars, submitVars, retryVars, abstractVars>>

\* session.flush raises SQLAlchemyError for the record: rollback, count, continue
MgInsertFails ==
  /\ mg_pc = "insert"
  /\ mg_idx \in MgRecords
  /\ mg_pending' = AfterRollback(mg_pending)
  /\ failed_inserts' = failed_inserts + 1
  /\ mg_idx' = mg_idx + 1
  /\ UNCHANGED <<mg_pc, mg_table, successful_inserts>>
  /\ UNCHANGED <<convVars, dlVars, countVars, otherVars, submitVars, retryVars, abstractVars>>

\* after the loop: session.commit() makes the open transaction permanent and the counts
\* are printed
MgCommit ==
  /\ mg_pc = "insert"
  /\ mg_idx \notin MgRecords
  /\ mg_table' = mg_table \cup mg_pending
  /\ mg_pending' = {}
  /\ mg_pc' = "done"
  /\ UNCHANGED <<mg_idx, successful_inserts, failed_inserts>>
  /\ UNCHANGED <<convVars, dlVars, countVars, otherVars, submitVars, retryVars, abstractVars>>

\* after the loop: session.commit() raises, the error is printed and the transaction
\* rolled back
MgCommitFails ==
  /\ mg_pc = "insert"
  /\ mg_idx \notin MgRecords
  /\ mg_pending' = AfterRollback(mg_pending)
  /\ mg_pc' = "commit_failed"
  /\ UNCHANGED <<mg_idx, mg_table, successful_inserts, failed_inserts>>
  /\ UNCHANGED <<convVars, dlVars, countVars, otherVars, submitVars, retryVars, abstractVars>>

NextMigrate ==
  \/ MgInsertOk
  \/ MgInsertFails
  \/ MgCommit
  \/ MgCommitFails

\* the migration of MgNumRecords records into an empty target table
SpecMigrate == Init /\ [][NextMigrate]_vars

\* C39: in the migration a record whose insert fails is skipped without affecting the
\* others: after the final commit the target table holds as many records as
\* successful_inserts counts, and no record that failed.
C39_TableHoldsCountedRecords ==
  mg_pc = "done" => Cardinality(mg_table) = successful_inserts

====
